---- MODULE Spec2Model ----
(***************************************************************************)
(* Model of usePointerEvents (src/core/gridGL/interaction/                 *)
(* usePointerEvents.ts): the pointer-down / pointer-move / pointer-up      *)
(* handlers that turn pointer input into the grid's cell selection, and    *)
(* the double-click window they keep with window.setTimeout.               *)
(*                                                                         *)
(* Every handler runs to completion on the state of the last render, so    *)
(* each handler is one atomic action.  World coordinates are integers;     *)
(* Math.floor(x / CELL_WIDTH) is then the floor division x \div CELL_WIDTH.*)
(* Time is kept as the remaining delay of every pending timer; a timer     *)
(* callback runs when its delay has elapsed, before any later event.       *)
(***************************************************************************)
EXTENDS Integers, FiniteSets, Sequences, TLC

\* ---------------------------------------------------------------- constants
MINIMUM_MOVE_POSITION == 5
DOUBLE_CLICK_TIME == 500
CELL_WIDTH == 100
CELL_HEIGHT == 20

\* ------------------------------------------------------------------- bounds
\* largest number of setTimeout timers pending at one time
MaxTimers == 2
\* largest amount of time that passes in one step of the clock
TickStep == 250

\* ------------------------------------------------------------------- inputs
\* the value of an unset useState cell, of viewportRef.current before mount
Undefined == [undefined |-> TRUE]

Pt(x, y) == [x |-> x, y |-> y]

\* world positions the pointer visits: two in cell (0,0) at Manhattan distance
\* 5 (the click tolerance at scale 1, inside it at scale 2), one on the corner
\* of cell (1,1), one left of the origin in cell (-1,1)
Worlds == { Pt(10, 10), Pt(15, 10), Pt(100, 20), Pt(-5, 25) }

\* event.button and event.ctrlKey of a pointer event
Buttons == { <<0, FALSE>>, <<0, TRUE>>, <<1, FALSE>>, <<2, FALSE>> }

\* viewport.scale.x
Scales == { 1, 2 }

Viewports == { [scale |-> s, dirty |-> FALSE] : s \in Scales }

VARIABLES
    viewport,            \* props.viewportRef.current
    interactionState,    \* props.interactionState
    downPosition,        \* useState: cell of the pointer-down
    downPositionRaw,     \* useState: world position of the pointer-down
    previousPosition,    \* useState: last rectangle written by a move
    pointerMoved,        \* useState: the pointer left the click tolerance
    doubleClickTimeout,  \* useState: timer id, 0 for undefined
    timers,              \* host: pending setTimeout callbacks, id -> delay left
    out                  \* the last call of the returned interface and its effects

vars == << viewport, interactionState, downPosition, downPositionRaw,
           previousPosition, pointerMoved, doubleClickTimeout, timers, out >>

\* -------------------------------------------------------------- pure helpers
Abs(n) == IF n < 0 THEN -n ELSE n

Manhattan(a, b) == Abs(a.x - b.x) + Abs(a.y - b.y)

\* the quotient rounded toward zero
ToCellTruncated(world) ==
    Pt(IF world.x < 0 THEN -((-world.x) \div CELL_WIDTH) ELSE world.x \div CELL_WIDTH,
       IF world.y < 0 THEN -((-world.y) \div CELL_HEIGHT) ELSE world.y \div CELL_HEIGHT)

ToCell(world) == Pt(world.x \div CELL_WIDTH, world.y \div CELL_HEIGHT)

\* the corners exchanged
RectSwapped(o, t) == [originPosition |-> t, terminalPosition |-> o]

Rect(o, t) == [originPosition |-> o, terminalPosition |-> t]

\* the tolerance taken inclusive
WithinClickDistanceInclusive(raw, world, scale) ==
    Manhattan(raw, world) <= MINIMUM_MOVE_POSITION * scale

WithinClickDistance(raw, world, scale) ==
    Manhattan(raw, world) < MINIMUM_MOVE_POSITION * scale

\* the comparison turned round
BeyondClickDistanceFlipped(raw, world, scale) ==
    Manhattan(raw, world) < MINIMUM_MOVE_POSITION * scale

BeyondClickDistance(raw, world, scale) ==
    Manhattan(raw, world) > MINIMUM_MOVE_POSITION * scale

\* the bounds taken exclusive
InsideSelectionStrict(cell, rect) ==
    /\ cell.x > rect.originPosition.x
    /\ cell.x < rect.terminalPosition.x
    /\ cell.y > rect.originPosition.y
    /\ cell.y < rect.terminalPosition.y

InsideSelection(cell, rect) ==
    /\ cell.x >= rect.originPosition.x
    /\ cell.x <= rect.terminalPosition.x
    /\ cell.y >= rect.originPosition.y
    /\ cell.y <= rect.terminalPosition.y

RightClick(button, ctrlKey) == button = 2 \/ (button = 0 /\ ctrlKey)

\* the rectangle from the down cell to the move cell, not ordered
NormalizedRectUnordered(down, move) == Rect(down, move)

NormalizedRect(down, move) ==
    Rect(Pt(IF down.x < move.x THEN down.x ELSE move.x,
            IF down.y < move.y THEN down.y ELSE move.y),
         Pt(IF down.x > move.x THEN down.x ELSE move.x,
            IF down.y > move.y THEN down.y ELSE move.y))

\* only the terminal corner compared
HasMovedTerminalOnly(previous, rect) ==
    ~ ( /\ previous.terminalPosition.x = rect.terminalPosition.x
        /\ previous.terminalPosition.y = rect.terminalPosition.y )

HasMoved(previous, rect) ==
    ~ ( /\ previous.originPosition.x = rect.originPosition.x
        /\ previous.originPosition.y = rect.originPosition.y
        /\ previous.terminalPosition.x = rect.terminalPosition.x
        /\ previous.terminalPosition.y = rect.terminalPosition.y )

\* undefined taken for a timer id
TruthyAlways(timeout) == timeout >= 0

\* `doubleClickTimeout &&`: undefined is falsy, a timer id is not
Truthy(timeout) == timeout # 0

\* the condition under which isDoubleClick returns true
IsDoubleClick(world, button) ==
    IF button # 0 \/ downPositionRaw = Undefined \/ viewport = Undefined
    THEN FALSE
    ELSE /\ Truthy(doubleClickTimeout)
         /\ ~pointerMoved
         /\ WithinClickDistance(downPositionRaw, world, viewport.scale)

\* ------------------------------------------------------- the hook's functions
\* what a call did besides changing the state: isDoubleClick returned true
\* (dbl), onDoubleClickCanvas was called (handler), setInteractionState was
\* called (wrote), viewport.dirty was set (dirtied), setTimeout was called
\* (armed)
NoEffect ==
    [dbl |-> FALSE, handler |-> FALSE, wrote |-> FALSE, dirtied |-> FALSE,
     armed |-> FALSE]

\* the state a function starts from; each function below yields the state it
\* leaves and the effects of the call
Current ==
    [viewport |-> viewport,
     interactionState |-> interactionState,
     downPosition |-> downPosition,
     downPositionRaw |-> downPositionRaw,
     previousPosition |-> previousPosition,
     pointerMoved |-> pointerMoved,
     doubleClickTimeout |-> doubleClickTimeout,
     timers |-> timers,
     effect |-> NoEffect]

\* window.setTimeout returns a positive id no pending timer has
NewTimerId == CHOOSE id \in 1..(Cardinality(DOMAIN timers) + 1) : id \notin DOMAIN timers

\* the window left open by a double-click
DoubleClickKeepsWindow(world, button) ==
    IF IsDoubleClick(world, button)
    THEN [Current EXCEPT !.effect.dbl = TRUE,
                         !.effect.handler = TRUE]
    ELSE Current

DoubleClick(world, button) ==
    IF IsDoubleClick(world, button)
    THEN [Current EXCEPT !.doubleClickTimeout = 0,
                         !.effect.dbl = TRUE,
                         !.effect.handler = TRUE]
    ELSE Current

\* the movement flag not reset
PointerDownKeepsMoved(world, button, ctrlKey) ==
    LET cell == ToCell(world)
        rightClick == RightClick(button, ctrlKey)
        ignored == IF rightClick /\ interactionState.showMultiCursor
                   THEN InsideSelection(cell, interactionState.multiCursorPosition)
                   ELSE rightClick
    IN IF IsDoubleClick(world, button) THEN DoubleClick(world, button)
       ELSE IF viewport = Undefined THEN Current
       ELSE IF ignored THEN [Current EXCEPT !.downPositionRaw = world]
       ELSE [Current EXCEPT
                !.downPositionRaw = world,
                !.downPosition = cell,
                !.previousPosition = Rect(cell, cell),
                !.interactionState.cursorPosition = cell,
                !.interactionState.multiCursorPosition = Rect(cell, cell),
                !.interactionState.showMultiCursor = FALSE,
                !.effect.wrote = TRUE]

\* the cell input closed by the pointer-down
PointerDownClearsInput(world, button, ctrlKey) ==
    LET cell == ToCell(world)
        rightClick == RightClick(button, ctrlKey)
        ignored == IF rightClick /\ interactionState.showMultiCursor
                   THEN InsideSelection(cell, interactionState.multiCursorPosition)
                   ELSE rightClick
    IN IF IsDoubleClick(world, button) THEN DoubleClick(world, button)
       ELSE IF viewport = Undefined THEN Current
       ELSE IF ignored THEN [Current EXCEPT !.downPositionRaw = world]
       ELSE [Current EXCEPT
                !.downPositionRaw = world,
                !.downPosition = cell,
                !.previousPosition = Rect(cell, cell),
                !.interactionState =
                    [keyboardMovePosition |-> cell,
                     cursorPosition |-> cell,
                     multiCursorPosition |-> Rect(cell, cell),
                     showMultiCursor |-> FALSE,
                     showInput |-> FALSE,
                     inputInitialValue |-> ""],
                !.pointerMoved = FALSE,
                !.effect.wrote = TRUE]

PointerDown(world, button, ctrlKey) ==
    LET cell == ToCell(world)
        rightClick == RightClick(button, ctrlKey)
        ignored == IF rightClick /\ interactionState.showMultiCursor
                   THEN InsideSelection(cell, interactionState.multiCursorPosition)
                   ELSE rightClick
    IN IF IsDoubleClick(world, button) THEN DoubleClick(world, button)
       ELSE IF viewport = Undefined THEN Current
       ELSE IF ignored THEN [Current EXCEPT !.downPositionRaw = world]
       ELSE [Current EXCEPT
                !.downPositionRaw = world,
                !.downPosition = cell,
                !.previousPosition = Rect(cell, cell),
                !.interactionState.cursorPosition = cell,
                !.interactionState.multiCursorPosition = Rect(cell, cell),
                !.interactionState.showMultiCursor = FALSE,
                !.pointerMoved = FALSE,
                !.effect.wrote = TRUE]

\* the single-cell write skipped when the state already shows it
PointerMoveCollapseDeduplicated(world) ==
    IF \/ viewport = Undefined
       \/ downPosition = Undefined
       \/ previousPosition = Undefined
       \/ downPositionRaw = Undefined
    THEN Current
    ELSE LET cell == ToCell(world)
             rect == NormalizedRect(downPosition, cell)
             moved == IF /\ ~pointerMoved
                         /\ BeyondClickDistance(downPositionRaw, world, viewport.scale)
                      THEN TRUE
                      ELSE pointerMoved
         IN IF cell.x = downPosition.x /\ cell.y = downPosition.y
            THEN IF /\ interactionState.cursorPosition = downPosition
                    /\ interactionState.multiCursorPosition = Rect(downPosition, downPosition)
                    /\ ~interactionState.showMultiCursor
                 THEN [Current EXCEPT !.pointerMoved = moved]
                 ELSE
                 [Current EXCEPT
                     !.pointerMoved = moved,
                     !.interactionState =
                         [keyboardMovePosition |-> downPosition,
                          cursorPosition |-> downPosition,
                          multiCursorPosition |-> Rect(downPosition, downPosition),
                          showMultiCursor |-> FALSE,
                          showInput |-> FALSE,
                          inputInitialValue |-> ""],
                     !.effect.wrote = TRUE]
            ELSE IF HasMoved(previousPosition, rect)
            THEN [Current EXCEPT
                     !.pointerMoved = moved,
                     !.interactionState =
                         [keyboardMovePosition |-> cell,
                          cursorPosition |-> downPosition,
                          multiCursorPosition |-> rect,
                          showMultiCursor |-> TRUE,
                          showInput |-> FALSE,
                          inputInitialValue |-> ""],
                     !.viewport.dirty = TRUE,
                     !.previousPosition = rect,
                     !.effect.wrote = TRUE,
                     !.effect.dirtied = TRUE]
            ELSE [Current EXCEPT !.pointerMoved = moved]

PointerMove(world) ==
    IF \/ viewport = Undefined
       \/ downPosition = Undefined
       \/ previousPosition = Undefined
       \/ downPositionRaw = Undefined
    THEN Current
    ELSE LET cell == ToCell(world)
             rect == NormalizedRect(downPosition, cell)
             moved == IF /\ ~pointerMoved
                         /\ BeyondClickDistance(downPositionRaw, world, viewport.scale)
                      THEN TRUE
                      ELSE pointerMoved
         IN IF cell.x = downPosition.x /\ cell.y = downPosition.y
            THEN [Current EXCEPT
                     !.pointerMoved = moved,
                     !.interactionState =
                         [keyboardMovePosition |-> downPosition,
                          cursorPosition |-> downPosition,
                          multiCursorPosition |-> Rect(downPosition, downPosition),
                          showMultiCursor |-> FALSE,
                          showInput |-> FALSE,
                          inputInitialValue |-> ""],
                     !.effect.wrote = TRUE]
            ELSE IF HasMoved(previousPosition, rect)
            THEN [Current EXCEPT
                     !.pointerMoved = moved,
                     !.interactionState =
                         [keyboardMovePosition |-> cell,
                          cursorPosition |-> downPosition,
                          multiCursorPosition |-> rect,
                          showMultiCursor |-> TRUE,
                          showInput |-> FALSE,
                          inputInitialValue |-> ""],
                     !.viewport.dirty = TRUE,
                     !.previousPosition = rect,
                     !.effect.wrote = TRUE,
                     !.effect.dirtied = TRUE]
            ELSE [Current EXCEPT !.pointerMoved = moved]

PointerUp ==
    LET cleared == [Current EXCEPT !.downPosition = Undefined,
                                   !.previousPosition = Undefined]
    IN IF downPosition # Undefined /\ ~pointerMoved
       THEN [cleared EXCEPT
                !.timers = [id \in DOMAIN timers \cup {NewTimerId} |->
                               IF id = NewTimerId THEN DOUBLE_CLICK_TIME
                               ELSE timers[id]],
                !.doubleClickTimeout = NewTimerId,
                !.effect.armed = TRUE]
       ELSE cleared

\* a timer whose delay has elapsed runs before anything else
NoTimerDue == \A id \in DOMAIN timers : timers[id] > 0

Min(a, b) == IF a < b THEN a ELSE b

MinDelay == CHOOSE d \in { timers[id] : id \in DOMAIN timers } :
                \A id \in DOMAIN timers : d <= timers[id]

\* --------------------------------------------------------------------- Init
Init ==
    /\ viewport = Undefined
    /\ interactionState =
          [keyboardMovePosition |-> Pt(0, 0),
           cursorPosition |-> Pt(0, 0),
           multiCursorPosition |-> Rect(Pt(0, 0), Pt(0, 0)),
           showMultiCursor |-> FALSE,
           showInput |-> FALSE,
           inputInitialValue |-> ""]
    /\ downPosition = Undefined
    /\ downPositionRaw = Undefined
    /\ previousPosition = Undefined
    /\ pointerMoved = FALSE
    /\ doubleClickTimeout = 0
    /\ timers = << >>
    /\ out = [kind |-> "none", effect |-> NoEffect]

\* ------------------------------------------------------------------ actions
\* a function of the returned interface returns: the state it leaves becomes
\* the state, and out records the call
Return(kind, result) ==
    /\ viewport' = result.viewport
    /\ interactionState' = result.interactionState
    /\ downPosition' = result.downPosition
    /\ downPositionRaw' = result.downPositionRaw
    /\ previousPosition' = result.previousPosition
    /\ pointerMoved' = result.pointerMoved
    /\ doubleClickTimeout' = result.doubleClickTimeout
    /\ timers' = result.timers
    /\ out' = [kind |-> kind, effect |-> result.effect]

isDoubleClick(world, button) ==
    /\ NoTimerDue
    /\ Return("isDoubleClick", DoubleClick(world, button))

onPointerDown(world, button, ctrlKey) ==
    /\ NoTimerDue
    /\ Return("onPointerDown", PointerDown(world, button, ctrlKey))

onPointerMove(world) ==
    /\ NoTimerDue
    /\ Return("onPointerMove", PointerMove(world))

onPointerUp ==
    /\ NoTimerDue
    /\ (downPosition # Undefined /\ ~pointerMoved)
          => Cardinality(DOMAIN timers) < MaxTimers
    /\ Return("onPointerUp", PointerUp)

\* the callback of setTimeout: () => setDoubleClickTimeout(undefined)
TimerFire(id) ==
    /\ id \in DOMAIN timers
    /\ timers[id] = 0
    /\ doubleClickTimeout' = 0
    /\ timers' = [i \in DOMAIN timers \ {id} |-> timers[i]]
    /\ UNCHANGED << viewport, interactionState, downPosition, downPositionRaw,
                    previousPosition, pointerMoved, out >>

\* the host runs a callback that is due
TimersFire == \E id \in DOMAIN timers : TimerFire(id)

\* time passes, up to the next timer's expiry
Tick ==
    /\ DOMAIN timers # {}
    /\ NoTimerDue
    /\ LET d == Min(TickStep, MinDelay)
       IN timers' = [id \in DOMAIN timers |-> timers[id] - d]
    /\ UNCHANGED << viewport, interactionState, downPosition, downPositionRaw,
                    previousPosition, pointerMoved, doubleClickTimeout, out >>

\* the owner of the viewport mounts, zooms, renders or unmounts it
SetViewport(v) ==
    /\ viewport # v
    /\ viewport' = v
    /\ UNCHANGED << interactionState, downPosition, downPositionRaw,
                    previousPosition, pointerMoved, doubleClickTimeout, timers,
                    out >>

\* the editor that shares the interaction state opens the cell input
OpenInput ==
    /\ ~interactionState.showInput
    /\ interactionState' = [interactionState EXCEPT !.showInput = TRUE,
                                                    !.inputInitialValue = "x"]
    /\ UNCHANGED << viewport, downPosition, downPositionRaw, previousPosition,
                    pointerMoved, doubleClickTimeout, timers, out >>

Next ==
    \/ \E w \in Worlds, b \in Buttons : isDoubleClick(w, b[1])
    \/ \E w \in Worlds, b \in Buttons : onPointerDown(w, b[1], b[2])
    \/ \E w \in Worlds : onPointerMove(w)
    \/ onPointerUp
    \/ TimersFire
    \/ Tick
    \/ \E v \in Viewports \cup {Undefined} : SetViewport(v)
    \/ OpenInput

Spec == Init /\ [][Next]_vars

\* the timers run: time passes and a due callback is called
FairSpec ==
    /\ Spec
    /\ WF_vars(Tick)
    /\ WF_vars(TimersFire)

\* =================================================================== claims
PerAxisMin(a, b) == Pt(IF a.x <= b.x THEN a.x ELSE b.x, IF a.y <= b.y THEN a.y ELSE b.y)

PerAxisMax(a, b) == Pt(IF a.x >= b.x THEN a.x ELSE b.x, IF a.y >= b.y THEN a.y ELSE b.y)

Contains(rect, cell) ==
    /\ rect.originPosition.x <= cell.x /\ cell.x <= rect.terminalPosition.x
    /\ rect.originPosition.y <= cell.y /\ cell.y <= rect.terminalPosition.y

Ordered(rect) ==
    /\ rect.originPosition.x <= rect.terminalPosition.x
    /\ rect.originPosition.y <= rect.terminalPosition.y

\* a pointer-down has been accepted and no pointer-up has followed
GestureActive ==
    /\ downPosition # Undefined
    /\ previousPosition # Undefined
    /\ downPositionRaw # Undefined

\* the functions of the returned interface can be called in this state
Callable == NoTimerDue

\* C1: a call of isDoubleClick, direct or by onPointerDown, returns true and
\* invokes the double-click handler if and only if the button is 0, the
\* viewport is available, a raw down position exists, the window is armed,
\* the pointer has not moved and |dx| + |dy| < 5 * scale.
C1_DoubleClickIff ==
    Callable =>
      \A w \in Worlds, b \in Buttons :
         LET classified ==
                /\ b[1] = 0
                /\ viewport # Undefined
                /\ downPositionRaw # Undefined
                /\ doubleClickTimeout # 0
                /\ ~pointerMoved
                /\ Abs(downPositionRaw.x - w.x) + Abs(downPositionRaw.y - w.y)
                      < 5 * viewport.scale
             down == PointerDown(w, b[1], b[2])
             query == DoubleClick(w, b[1])
         IN /\ down.effect.dbl = classified
            /\ down.effect.handler = classified
            /\ query.effect.dbl = classified
            /\ query.effect.handler = classified

C1_Witness ==
    /\ out.kind = "onPointerDown"
    /\ out.effect.dbl
    /\ out.effect.handler
    /\ doubleClickTimeout = 0
    /\ downPositionRaw # Undefined

\* C2: after a pointer-up that armed the window, and before 500 time units
\* have passed (its timer is still pending), a button-0 pointer-down at the
\* raw down position is classified as a double-click, invokes the handler
\* and writes no interaction state.
C2_ClickInsideWindowIsDouble ==
    ( /\ Callable
      /\ out.kind = "onPointerUp"
      /\ out.effect.armed
      /\ timers # << >>
      /\ viewport # Undefined )
    => \A c \in BOOLEAN :
          LET down == PointerDown(downPositionRaw, 0, c)
          IN /\ down.effect.dbl
             /\ down.effect.handler
             /\ ~down.effect.wrote
             /\ down.interactionState = interactionState

\* C3: at most one double-click timer is pending at any time.
C3_AtMostOneTimer == Cardinality(DOMAIN timers) <= 1

\* C4: a right-click pointer-down (button 2, or button 0 with ctrl) whose cell
\* is not inside a shown multi-cell selection leaves the interaction state
\* unchanged and does not invoke the double-click handler.
C4_RightClickOutsideIgnored ==
    Callable =>
      \A w \in Worlds, b \in Buttons :
         ( /\ b[1] = 2 \/ (b[1] = 0 /\ b[2])
           /\ ~ ( /\ interactionState.showMultiCursor
                  /\ Contains(interactionState.multiCursorPosition, ToCell(w)) ) )
         => LET down == PointerDown(w, b[1], b[2])
            IN /\ down.interactionState = interactionState
               /\ ~down.effect.wrote
               /\ ~down.effect.handler

\* C5: a right-click pointer-down (button 2, or button 0 with ctrl that is
\* not classified as a double-click) on a cell inside the shown multi-cell
\* selection, bounds included, leaves the interaction state unchanged.
C5_RightClickInsideIgnored ==
    Callable =>
      \A w \in Worlds, b \in Buttons :
         LET down == PointerDown(w, b[1], b[2])
         IN ( /\ b[1] = 2 \/ (b[1] = 0 /\ b[2])
              /\ ~down.effect.dbl
              /\ interactionState.showMultiCursor
              /\ Contains(interactionState.multiCursorPosition, ToCell(w)) )
            => /\ down.interactionState = interactionState
               /\ ~down.effect.wrote

\* the last call was a right-click pointer-down that moved the raw down
\* position to another cell of the shown selection and wrote nothing
C5_Witness ==
    /\ out.kind = "onPointerDown"
    /\ out.effect = NoEffect
    /\ viewport # Undefined
    /\ interactionState.showMultiCursor
    /\ downPositionRaw # Undefined
    /\ Contains(interactionState.multiCursorPosition, ToCell(downPositionRaw))
    /\ ToCell(downPositionRaw) # interactionState.cursorPosition

\* C6: the selection rectangle of the interaction state, and the tracked
\* previous rectangle when set, have origin <= terminal on both axes.
C6_RectangleNormalized ==
    /\ Ordered(interactionState.multiCursorPosition)
    /\ previousPosition # Undefined => Ordered(previousPosition)

\* a drag up and to the left: the down cell is the terminal corner
C6_Witness ==
    /\ out.kind = "onPointerMove"
    /\ interactionState.showMultiCursor
    /\ downPosition = interactionState.multiCursorPosition.terminalPosition
    /\ downPosition # interactionState.multiCursorPosition.originPosition
    /\ previousPosition = interactionState.multiCursorPosition

\* C7: during a gesture with down cell d, a pointer-move to a cell c # d
\* leaves multiCursorPosition = {per-axis min(d, c), per-axis max(d, c)},
\* showMultiCursor = true and keyboardMovePosition = c, whatever moves came
\* before it.
C7_MoveShowsRectangle ==
    (Callable /\ GestureActive /\ viewport # Undefined) =>
      \A w \in Worlds :
         ToCell(w) # downPosition
         => LET move == PointerMove(w)
            IN /\ move.interactionState.multiCursorPosition =
                     Rect(PerAxisMin(downPosition, ToCell(w)),
                          PerAxisMax(downPosition, ToCell(w)))
               /\ move.interactionState.showMultiCursor
               /\ move.interactionState.keyboardMovePosition = ToCell(w)

C9_MovedGestureNeverDouble ==
    /\ [] ( Callable =>
             /\ (GestureActive /\ viewport # Undefined)
                => \A w \in Worlds :
                      Manhattan(downPositionRaw, w) > 5 * viewport.scale
                      => PointerMove(w).pointerMoved
             /\ pointerMoved
                => /\ ~PointerUp.effect.armed
                   /\ PointerUp.timers = timers
                   /\ PointerUp.doubleClickTimeout = doubleClickTimeout
                   /\ \A w \in Worlds, b \in Buttons :
                         /\ ~PointerDown(w, b[1], b[2]).effect.dbl
                         /\ ~PointerDown(w, b[1], b[2]).effect.handler )
    /\ [][ (pointerMoved /\ ~pointerMoved')
             => (out'.kind = "onPointerDown" /\ out'.effect.wrote) ]_vars

\* a moved gesture has ended without arming, an earlier window is still open
C9_Witness ==
    /\ out.kind = "onPointerUp"
    /\ ~out.effect.armed
    /\ pointerMoved
    /\ doubleClickTimeout # 0
    /\ viewport # Undefined

\* C10: an armed window has a pending timer of its own, so that once the 500
\* time units of the last arming pointer-up have passed the window is idle;
\* in an idle window no pointer-down is classified as a double-click, and a
\* button-0 pointer-down without ctrl selects the single cell under it; and
\* every armed window is idle again at some later time.
C10_WindowExpires ==
    /\ [] ( doubleClickTimeout # 0 => doubleClickTimeout \in DOMAIN timers )
    /\ [] ( (Callable /\ doubleClickTimeout = 0) =>
              \A w \in Worlds, b \in Buttons :
                 LET down == PointerDown(w, b[1], b[2])
                 IN /\ ~down.effect.dbl
                    /\ ~down.effect.handler
                    /\ (b = <<0, FALSE>> /\ viewport # Undefined)
                       => /\ down.effect.wrote
                          /\ down.downPosition = ToCell(w)
                          /\ down.interactionState.cursorPosition = ToCell(w)
                          /\ down.interactionState.multiCursorPosition =
                                Rect(ToCell(w), ToCell(w))
                          /\ ~down.interactionState.showMultiCursor )
    /\ (doubleClickTimeout # 0) ~> (doubleClickTimeout = 0)

\* the last call armed the window, and the window has expired: it is idle and
\* no timer is left
C10_Witness ==
    /\ out.kind = "onPointerUp"
    /\ out.effect.armed
    /\ doubleClickTimeout = 0
    /\ timers = << >>
    /\ viewport # Undefined

\* the tracking fields of the hook and the double-click window are those of
\* the current state
TrackingKept(result) ==
    /\ result.downPosition = downPosition
    /\ result.downPositionRaw = downPositionRaw
    /\ result.previousPosition = previousPosition
    /\ result.pointerMoved = pointerMoved

WindowKept(result) ==
    /\ result.doubleClickTimeout = doubleClickTimeout
    /\ result.timers = timers

\* C11: a pointer-down whose button is neither 0 nor 2 changes neither the
\* interaction state nor the down cell, the raw down position, the previous
\* rectangle or the movement flag.
C11_OtherButtonIgnored ==
    Callable =>
      \A w \in Worlds, b \in Buttons :
         (b[1] # 0 /\ b[1] # 2)
         => LET down == PointerDown(w, b[1], b[2])
            IN /\ down.interactionState = interactionState
               /\ ~down.effect.wrote
               /\ TrackingKept(down)

\* C12: while the viewport is unavailable isDoubleClick returns false and
\* does not invoke the handler, and onPointerDown, onPointerMove and
\* onPointerUp change neither the interaction state nor a tracking field nor
\* the double-click window.
C12_NoViewportNoOp ==
    (Callable /\ viewport = Undefined) =>
      /\ \A w \in Worlds, b \in Buttons :
            /\ ~DoubleClick(w, b[1]).effect.dbl
            /\ ~DoubleClick(w, b[1]).effect.handler
            /\ PointerDown(w, b[1], b[2]).interactionState = interactionState
            /\ TrackingKept(PointerDown(w, b[1], b[2]))
            /\ WindowKept(PointerDown(w, b[1], b[2]))
      /\ \A w \in Worlds :
            /\ PointerMove(w).interactionState = interactionState
            /\ TrackingKept(PointerMove(w))
            /\ WindowKept(PointerMove(w))
      /\ PointerUp.interactionState = interactionState
      /\ TrackingKept(PointerUp)
      /\ WindowKept(PointerUp)

\* a pointer-move changes neither the interaction state, nor the movement
\* flag, nor the previous rectangle, nor the dirty flag
MoveIsNoOp(move) ==
    /\ move.interactionState = interactionState
    /\ move.pointerMoved = pointerMoved
    /\ move.previousPosition = previousPosition
    /\ move.viewport = viewport
    /\ move.effect = NoEffect

\* C13: no down-record exists before the first accepted pointer-down and
\* after every pointer-up, no call other than an accepted pointer-down
\* (button 0 without ctrl, not a double-click, viewport available) creates
\* one, and without a down-record a pointer-move changes neither the
\* interaction state, nor the movement flag, nor the previous rectangle, nor
\* the dirty flag.
C13_MoveWithoutDownIsNoOp ==
    /\ out.kind \in {"none", "onPointerUp"} => downPosition = Undefined
    /\ (Callable /\ downPosition = Undefined) =>
          /\ \A w \in Worlds : MoveIsNoOp(PointerMove(w))
          /\ \A w \in Worlds : PointerMove(w).downPosition = Undefined
          /\ \A w \in Worlds, b \in Buttons :
                DoubleClick(w, b[1]).downPosition = Undefined
          /\ \A w \in Worlds, b \in Buttons :
                b # <<0, FALSE>>
                => PointerDown(w, b[1], b[2]).downPosition = Undefined

\* largest cell index, in absolute value, looked at on an axis
MaxCell == 2

\* the cell whose extent [c * size, (c + 1) * size) holds the position on
\* each axis
FloorCell(world) ==
    Pt(CHOOSE x \in -MaxCell..MaxCell :
          x * CELL_WIDTH <= world.x /\ world.x < (x + 1) * CELL_WIDTH,
       CHOOSE y \in -MaxCell..MaxCell :
          y * CELL_HEIGHT <= world.y /\ world.y < (y + 1) * CELL_HEIGHT)

\* C14: for every world position, negative and on a cell boundary included,
\* the cell an accepted pointer-down records and the cell a pointer-move of a
\* gesture uses are both {floor(x / CELL_WIDTH), floor(y / CELL_HEIGHT)}, so a
\* position resolves to the same cell in both handlers.
C14_CellIsFloor ==
    (Callable /\ viewport # Undefined) =>
      \A w \in Worlds :
         LET down == PointerDown(w, 0, FALSE)
             move == PointerMove(w)
             rect == Rect(PerAxisMin(downPosition, FloorCell(w)),
                          PerAxisMax(downPosition, FloorCell(w)))
         IN /\ down.effect.wrote
               => /\ down.downPosition = FloorCell(w)
                  /\ down.interactionState.cursorPosition = FloorCell(w)
            /\ GestureActive
               => /\ move.interactionState.showMultiCursor
                     => /\ FloorCell(w) # downPosition
                        /\ move.previousPosition = rect
                  /\ (move.effect.wrote /\ move.interactionState.showMultiCursor)
                     => move.interactionState.keyboardMovePosition = FloorCell(w)
                  /\ (move.effect.wrote /\ ~move.interactionState.showMultiCursor)
                     => FloorCell(w) = downPosition
                  /\ down.effect.wrote
                     => ( (move.effect.wrote /\ ~move.effect.dirtied)
                          <=> down.downPosition = downPosition )

\* a drag from the corner of cell (1,1) to a position left of the origin
C14_Witness ==
    /\ out.kind = "onPointerMove"
    /\ out.effect.wrote
    /\ downPositionRaw = Pt(100, 20)
    /\ downPosition = Pt(1, 1)
    /\ interactionState.keyboardMovePosition = Pt(-1, 1)
    /\ interactionState.multiCursorPosition = Rect(Pt(-1, 1), Pt(1, 1))

\* C15: a pointer-down classified as a double-click is at Manhattan distance
\* < 5 * scale from the recorded raw down position, and the raw down position
\* is recorded only by a pointer-down accepted for selection: a pointer-down
\* that writes no selection, a swallowed right-click included, and every
\* other call leave it as it was.
C15_RawDownOnlyWhenAccepted ==
    Callable =>
      /\ \A w \in Worlds, b \in Buttons :
            LET down == PointerDown(w, b[1], b[2])
            IN /\ down.effect.dbl
                  => Manhattan(downPositionRaw, w) < 5 * viewport.scale
               /\ ~down.effect.wrote
                  => down.downPositionRaw = downPositionRaw
               /\ DoubleClick(w, b[1]).downPositionRaw = downPositionRaw
      /\ \A w \in Worlds : PointerMove(w).downPositionRaw = downPositionRaw
      /\ PointerUp.downPositionRaw = downPositionRaw

\* C16: a call classified as a double-click closes the window and records no
\* down cell, previous rectangle or selection; right after it no call is
\* classified as a double-click, whatever its arguments; when it came after
\* the pointer-up of the click (no down-record), the pointer-up that follows
\* arms no window, and a pointer-down after that pointer-up is not a
\* double-click; a closed window is opened again only by an arming
\* pointer-up, and every double-click closes an open one.
C16_OneDoubleClickPerWindow ==
    /\ [] ( Callable =>
              \A w \in Worlds, b \in Buttons :
                 LET down == PointerDown(w, b[1], b[2])
                     query == DoubleClick(w, b[1])
                 IN /\ down.effect.dbl
                       => /\ down.doubleClickTimeout = 0
                          /\ down.downPosition = downPosition
                          /\ down.previousPosition = previousPosition
                          /\ down.interactionState = interactionState
                          /\ ~down.effect.wrote
                    /\ query.effect.dbl => query.doubleClickTimeout = 0 )
    /\ [] ( out.effect.dbl =>
              /\ doubleClickTimeout = 0
              /\ Callable =>
                    /\ \A w \in Worlds, b \in Buttons :
                          /\ ~DoubleClick(w, b[1]).effect.dbl
                          /\ ~PointerDown(w, b[1], b[2]).effect.dbl
                    /\ downPosition = Undefined
                       => /\ ~PointerUp.effect.armed
                          /\ PointerUp.doubleClickTimeout = 0
                          /\ PointerUp.timers = timers )
    /\ [] ( ( /\ Callable
              /\ out.kind = "onPointerUp"
              /\ ~out.effect.armed
              /\ doubleClickTimeout = 0 )
            => \A w \in Worlds, b \in Buttons :
                  ~PointerDown(w, b[1], b[2]).effect.dbl )
    /\ [][ (out.effect.dbl /\ downPosition = Undefined /\ out'.kind = "onPointerUp")
             => (~out'.effect.armed /\ doubleClickTimeout' = 0) ]_vars
    /\ [][ (doubleClickTimeout = 0 /\ doubleClickTimeout' # 0)
             => (out'.kind = "onPointerUp" /\ out'.effect.armed) ]_vars
    /\ [][ (out' # out /\ out'.effect.dbl)
             => (doubleClickTimeout # 0 /\ doubleClickTimeout' = 0) ]_vars

\* the second pointer-down of a double click has been consumed inside the
\* window of the first click
C16_Witness ==
    /\ out.kind = "onPointerDown"
    /\ out.effect.dbl
    /\ downPosition = Undefined
    /\ previousPosition = Undefined
    /\ doubleClickTimeout = 0
    /\ timers # << >>
    /\ interactionState.cursorPosition = ToCell(downPositionRaw)

\* C17: a pointer-down with button 0 and no ctrl that is not classified as a
\* double-click, the viewport being available, at a position of cell d leaves
\* cursorPosition = d, multiCursorPosition = {d, d}, showMultiCursor = false,
\* the previous rectangle {d, d}, the down cell d and the movement flag false.
C17_AcceptedDownSelectsCell ==
    (Callable /\ viewport # Undefined) =>
      \A w \in Worlds :
         LET down == PointerDown(w, 0, FALSE)
             d == FloorCell(w)
         IN ~down.effect.dbl
            => /\ down.effect.wrote
               /\ down.interactionState.cursorPosition = d
               /\ down.interactionState.multiCursorPosition.originPosition = d
               /\ down.interactionState.multiCursorPosition.terminalPosition = d
               /\ ~down.interactionState.showMultiCursor
               /\ down.previousPosition.originPosition = d
               /\ down.previousPosition.terminalPosition = d
               /\ down.downPosition = d
               /\ ~down.pointerMoved

\* a pointer-down accepted away from the keyboard position while an earlier
\* window was still open
C17_Witness ==
    /\ out.kind = "onPointerDown"
    /\ out.effect.wrote
    /\ viewport # Undefined
    /\ downPosition = ToCell(downPositionRaw)
    /\ interactionState.cursorPosition = downPosition
    /\ interactionState.keyboardMovePosition # downPosition
    /\ ~interactionState.showMultiCursor
    /\ ~pointerMoved
    /\ doubleClickTimeout # 0

\* C18: during a gesture every pointer-move whose cell is the down cell d
\* writes the interaction state, whatever the state already shows, and the
\* state it writes has cursorPosition = keyboardMovePosition = origin =
\* terminal = d, showMultiCursor = false, showInput = false and an empty
\* inputInitialValue.
C18_SameCellMoveAlwaysWrites ==
    (Callable /\ GestureActive /\ viewport # Undefined) =>
      \A w \in Worlds :
         FloorCell(w) = downPosition
         => LET move == PointerMove(w)
            IN /\ move.effect.wrote
               /\ move.interactionState.cursorPosition = downPosition
               /\ move.interactionState.keyboardMovePosition = downPosition
               /\ move.interactionState.multiCursorPosition.originPosition = downPosition
               /\ move.interactionState.multiCursorPosition.terminalPosition = downPosition
               /\ ~move.interactionState.showMultiCursor
               /\ ~move.interactionState.showInput
               /\ move.interactionState.inputInitialValue = ""

\* a move back into the down cell after a drag: the state shows the single
\* cell again while the tracked rectangle is still the dragged one
C18_Witness ==
    /\ out.kind = "onPointerMove"
    /\ out.effect.wrote
    /\ ~out.effect.dirtied
    /\ GestureActive
    /\ viewport # Undefined
    /\ interactionState.cursorPosition = downPosition
    /\ interactionState.keyboardMovePosition = downPosition
    /\ ~interactionState.showMultiCursor
    /\ ~interactionState.showInput
    /\ previousPosition # interactionState.multiCursorPosition

\* what C19 says of an interaction state written with down cell `down`
WrittenStateConsistent(written, down) ==
    /\ written.showMultiCursor
       <=> written.multiCursorPosition.originPosition
              # written.multiCursorPosition.terminalPosition
    /\ written.cursorPosition = down
    /\ Contains(written.multiCursorPosition, written.cursorPosition)

\* C19: in every interaction state written by a pointer-down or a
\* pointer-move, showMultiCursor is true exactly when origin differs from
\* terminal, and cursorPosition is the down cell of the gesture and lies
\* inside the rectangle.
C19_WrittenStateConsistent ==
    Callable =>
      /\ \A w \in Worlds, b \in Buttons :
            LET down == PointerDown(w, b[1], b[2])
            IN down.effect.wrote
               => WrittenStateConsistent(down.interactionState, down.downPosition)
      /\ \A w \in Worlds :
            LET move == PointerMove(w)
            IN move.effect.wrote
               => /\ WrittenStateConsistent(move.interactionState, move.downPosition)
                  /\ move.downPosition = downPosition

\* a shown rectangle with the cursor on neither of its two corners
C19_Witness ==
    /\ out.kind = "onPointerMove"
    /\ out.effect.wrote
    /\ interactionState.showMultiCursor
    /\ interactionState.cursorPosition = downPosition
    /\ interactionState.cursorPosition # interactionState.multiCursorPosition.originPosition
    /\ interactionState.cursorPosition # interactionState.multiCursorPosition.terminalPosition

\* C20: a pointer-down that is accepted keeps keyboardMovePosition, showInput
\* and inputInitialValue of the interaction state; pointer-up keeps the whole
\* interaction state; a pointer-move of the gesture that writes sets showInput
\* false and inputInitialValue empty.
C20_DownKeepsInputFields ==
    Callable =>
      /\ \A w \in Worlds, b \in Buttons :
            LET down == PointerDown(w, b[1], b[2])
            IN down.effect.wrote
               => /\ down.interactionState.keyboardMovePosition
                        = interactionState.keyboardMovePosition
                  /\ down.interactionState.showInput = interactionState.showInput
                  /\ down.interactionState.inputInitialValue
                        = interactionState.inputInitialValue
      /\ PointerUp.interactionState = interactionState
      /\ \A w \in Worlds :
            LET move == PointerMove(w)
            IN IF move.effect.wrote
               THEN /\ ~move.interactionState.showInput
                    /\ move.interactionState.inputInitialValue = ""
               ELSE move.interactionState = interactionState

\* a pointer-down accepted with the cell input open
C20_Witness ==
    /\ out.kind = "onPointerDown"
    /\ out.effect.wrote
    /\ interactionState.showInput
    /\ interactionState.inputInitialValue = "x"
    /\ interactionState.keyboardMovePosition # interactionState.cursorPosition
    /\ interactionState.cursorPosition = downPosition

====
